---- MODULE Spec2Model ----
(***************************************************************************)
(* A model of homework_12.py: the field validators, Record, AddressBook,   *)
(* the command handlers wrapped by input_error, and the main loop.         *)
(*                                                                         *)
(* Python strings are sequences of one-character strings, so that          *)
(* startswith, split, join, lower and the regular expressions are          *)
(* computed character by character.  None is the one-element sequence      *)
(* <<"None">>, which no character sequence equals.                         *)
(***************************************************************************)
EXTENDS Integers, Sequences, FiniteSets, TLC

VARIABLES
    data,        \* AddressBook.data: the dict, as a sequence of [key, rec] in insertion order
    file,        \* address_book.csv: [exists, rows], the data rows under the header
    pc,          \* position of the running code
    op,          \* the last call made: <<function name, argument...>>
    ret,         \* what the last call returned or raised
    other,       \* a second, initially empty AddressBook that address_book_reader fills
    command,     \* main: the lowercased input line of the last iteration
    printed,     \* main: what the last iteration printed, in order
    wrote,       \* main: whether the last iteration called address_book_writer
    itPage,      \* iterator: record_number
    itCounter,   \* iterator: counter
    itSlice,     \* iterator: the slice last yielded
    itYielded    \* iterator: every slice yielded so far, concatenated

vars == <<data, file, pc, op, ret, other, command, printed, wrote,
          itPage, itCounter, itSlice, itYielded>>

-----------------------------------------------------------------------------
(* Bounds of the model.                                                    *)

MaxPhones == 2
MaxIterRecords == 3
MaxPageSize == 3

-----------------------------------------------------------------------------
(* Characters and the str methods the program uses.                        *)

None == <<"None">>

LowerLetters == <<"a","b","c","d","e","f","g","h","i","j","k","l","m",
                  "n","o","p","q","r","s","t","u","v","w","x","y","z">>
UpperLetters == <<"A","B","C","D","E","F","G","H","I","J","K","L","M",
                  "N","O","P","Q","R","S","T","U","V","W","X","Y","Z">>
DigitChars == <<"0","1","2","3","4","5","6","7","8","9">>

Range(s) == {s[i] : i \in 1..Len(s)}

CharIsAlpha(c) == c \in Range(LowerLetters) \cup Range(UpperLetters)
CharIsDigit(c) == c \in Range(DigitChars)
CharIsSpace(c) == c = " "

DigitValue(c) == (CHOOSE i \in 1..10 : DigitChars[i] = c) - 1

\* str.isdigit(): non-empty and every character a digit
IsDigit(s) == Len(s) > 0 /\ \A i \in 1..Len(s) : CharIsDigit(s[i])
\* str.isalpha()
IsAlpha(s) == Len(s) > 0 /\ \A i \in 1..Len(s) : CharIsAlpha(s[i])
\* str.isalnum()
IsAlnum(s) == Len(s) > 0 /\ \A i \in 1..Len(s) : CharIsAlpha(s[i]) \/ CharIsDigit(s[i])

LowerChar(c) ==
    IF c \in Range(UpperLetters)
    THEN LowerLetters[CHOOSE i \in 1..26 : UpperLetters[i] = c]
    ELSE c
\* str.lower()
StrLower(s) == [i \in 1..Len(s) |-> LowerChar(s[i])]

\* str.startswith(prefix)
StartsWith(s, prefix) ==
    Len(prefix) <= Len(s) /\ SubSeq(s, 1, Len(prefix)) = prefix

\* needle in haystack, for two strings
Contains(haystack, needle) ==
    \E i \in 1..(Len(haystack) - Len(needle) + 1) :
        SubSeq(haystack, i, i + Len(needle) - 1) = needle

\* str.split(sep) for a one-character separator: empty pieces are kept
RECURSIVE SplitOn(_, _)
SplitOn(s, sep) ==
    IF \E i \in 1..Len(s) : s[i] = sep
    THEN LET i == CHOOSE k \in 1..Len(s) :
                      s[k] = sep /\ \A j \in 1..(k - 1) : s[j] # sep
         IN  <<SubSeq(s, 1, i - 1)>> \o SplitOn(SubSeq(s, i + 1, Len(s)), sep)
    ELSE <<s>>

\* str.split(): runs of whitespace separate, empty pieces are dropped
Split(s) == SelectSeq(SplitOn(s, " "), LAMBDA w : Len(w) > 0)

\* sep.join(parts)
RECURSIVE Join(_, _)
Join(parts, sep) ==
    IF Len(parts) = 0 THEN <<>>
    ELSE IF Len(parts) = 1 THEN parts[1]
    ELSE parts[1] \o sep \o Join(Tail(parts), sep)

-----------------------------------------------------------------------------
(* What a call does: it returns a value or raises an exception.            *)

Ok(v) == [kind |-> "ok", val |-> v]
Raise(exc, msg) == [kind |-> "raise", exc |-> exc, msg |-> msg]

\* r, then F of its value: an exception raised by r propagates
Then(r, F(_)) == IF r.kind = "raise" THEN r ELSE F(r.val)

\* the same where the caller holds the book d: [data, res]
Try(r, d, F(_)) == IF r.kind = "raise" THEN [data |-> d, res |-> r] ELSE F(r.val)

-----------------------------------------------------------------------------
(* Field validators.                                                       *)

\* Name.is_valid: every character is alphabetic or whitespace
NameIsValid(value) ==
    \A i \in 1..Len(value) : CharIsAlpha(value[i]) \/ CharIsSpace(value[i])

\* Field.__init__ for a Name
NewName(value) ==
    IF ~NameIsValid(value) THEN Raise("ValueError", "Invalid value") ELSE Ok(value)

MinPhoneLen == 10

\* Phone.is_valid raises instead of returning False, so Field.__init__ for a
\* Phone raises the phone-format error
NewPhone(value) ==
    IF ~IsDigit(value) \/ Len(value) < MinPhoneLen
    THEN Raise("ValueError", "Invalid phone number format")
    ELSE Ok(value)

RECURSIVE DecimalValue(_)
DecimalValue(s) ==
    IF Len(s) = 0 THEN 0
    ELSE 10 * DecimalValue(SubSeq(s, 1, Len(s) - 1)) + DigitValue(s[Len(s)])

IsLeap(y) == (y % 4 = 0 /\ y % 100 # 0) \/ y % 400 = 0

DaysInMonth(y, m) ==
    IF m = 2 THEN (IF IsLeap(y) THEN 29 ELSE 28)
    ELSE IF m \in {4, 6, 9, 11} THEN 30 ELSE 31

\* datetime.strptime(value, "%Y-%m-%d") succeeds: four year digits, a month
\* 1..12 and a day 1..31 of one or two digits (the day also as a space and a
\* digit), separated by "-", naming a date of the calendar
StrptimeOk(value) ==
    LET parts == SplitOn(value, "-") IN
    /\ Len(parts) = 3
    /\ LET y == parts[1]
           m == parts[2]
           d == parts[3]
           dd == IF Len(d) = 2 /\ d[1] = " " THEN Tail(d) ELSE d
       IN  /\ Len(y) = 4 /\ IsDigit(y)
           /\ Len(m) \in {1, 2} /\ IsDigit(m)
           /\ DecimalValue(m) \in 1..12
           /\ Len(dd) \in {1, 2} /\ IsDigit(dd)
           /\ (Len(d) = 2 /\ d[1] = " ") => Len(dd) = 1
           /\ DecimalValue(dd) >= 1
           /\ DecimalValue(y) >= 1
           /\ DecimalValue(dd) <= DaysInMonth(DecimalValue(y), DecimalValue(m))

\* Field.__init__ for a Birthday: is_valid parses the text only to check it;
\* the value stored is the text itself
NewBirthday(value) ==
    IF ~StrptimeOk(value)
    THEN Raise("ValueError", "Wrong date format")
    ELSE Ok(value)

-----------------------------------------------------------------------------
(* Record: [name, birthday, phones].  A Phone is modelled by its value.    *)

\* Record.__init__(name, birthday): a falsy birthday (None or '') is no birthday
NewRecord(name, birthday) ==
    Then(NewName(name), LAMBDA n :
        IF birthday = None \/ birthday = <<>>
        THEN Ok([name |-> n, birthday |-> None, phones |-> <<>>])
        ELSE Then(NewBirthday(birthday), LAMBDA b :
                 Ok([name |-> n, birthday |-> b, phones |-> <<>>])))

\* Record.add_phone: validates and appends, no duplicate check
RecordAddPhone(rec, phone) ==
    Then(NewPhone(phone), LAMBDA p : Ok([rec EXCEPT !.phones = Append(@, p)]))

FirstIndex(phones, phone) ==
    CHOOSE i \in 1..Len(phones) :
        phones[i] = phone /\ \A j \in 1..(i - 1) : phones[j] # phone

\* Record.remove_phone: list(filter(...))[0] raises IndexError when no phone
\* has the value; otherwise the first such Phone object is removed
RecordRemovePhone(rec, phone) ==
    IF ~\E i \in 1..Len(rec.phones) : rec.phones[i] = phone
    THEN Raise("IndexError", "list index out of range")
    ELSE LET i == FirstIndex(rec.phones, phone) IN
         Ok([rec EXCEPT !.phones =
                SubSeq(@, 1, i - 1) \o SubSeq(@, i + 1, Len(@))])

\* edit_phone without the break: every phone equal to old_number is replaced
RecordEditPhoneNoBreak(rec, old_number, new_number) ==
    IF ~IsDigit(new_number) \/ Len(new_number) < 10
    THEN Raise("ValueError", "Invalid phone number format")
    ELSE IF \E i \in 1..Len(rec.phones) : rec.phones[i] = old_number
    THEN Ok([rec EXCEPT !.phones =
                [i \in 1..Len(@) |-> IF @[i] = old_number THEN new_number ELSE @[i]]])
    ELSE Raise("ValueError", "Phone number not found in the record.")

\* Record.edit_phone
RecordEditPhone(rec, old_number, new_number) ==
    IF ~IsDigit(new_number) \/ Len(new_number) < 10
    THEN Raise("ValueError", "Invalid phone number format")
    ELSE IF \E i \in 1..Len(rec.phones) : rec.phones[i] = old_number
    THEN Then(NewPhone(new_number),     \* the value setter validates again
              LAMBDA p : Ok([rec EXCEPT
                               !.phones[FirstIndex(rec.phones, old_number)] = p]))
    ELSE Raise("ValueError", "Phone number not found in the record.")

\* Record.find_phone
RecordFindPhone(rec, phone) ==
    IF \E i \in 1..Len(rec.phones) : rec.phones[i] = phone
    THEN rec.phones[FirstIndex(rec.phones, phone)]
    ELSE None

\* Record.days_to_birthday at the moment now.  self.birthday.value is the str
\* that Birthday stored, and a str has no attribute month: building
\* birthday_this_year raises before any date is computed
DaysToBirthday(rec, now) ==
    IF rec.birthday # None
    THEN Raise("AttributeError", "'str' object has no attribute 'month'")
    ELSE Ok(None)

-----------------------------------------------------------------------------
(* AddressBook: the dict self.data, in insertion order.                    *)

Keys(d) == {d[i].key : i \in 1..Len(d)}

Values(d) == [i \in 1..Len(d) |-> d[i].rec]

\* self.data[key]
Lookup(d, key) == d[CHOOSE i \in 1..Len(d) : d[i].key = key].rec

\* self.data[key] = rec
DictSet(d, key, rec) ==
    IF key \in Keys(d)
    THEN [i \in 1..Len(d) |-> IF d[i].key = key THEN [key |-> key, rec |-> rec] ELSE d[i]]
    ELSE Append(d, [key |-> key, rec |-> rec])

\* del self.data[key]
DictDel(d, key) == SelectSeq(d, LAMBDA e : e.key # key)

\* add_record without the membership test
AddRecordOverwrites(d, record) ==
    [data |-> DictSet(d, record.name, record), res |-> Ok(None)]

\* AddressBook.add_record
AddRecord(d, record) ==
    IF record.name \notin Keys(d)
    THEN [data |-> DictSet(d, record.name, record), res |-> Ok(None)]
    ELSE [data |-> d,
          res |-> Raise("ValueError", "The contact with this name already exists")]

\* what AddressBook.find returns for a missing name: None, in the shape of a
\* record that no Record equals (a Name's value is never None)
NoRecord == [name |-> None, birthday |-> None, phones |-> <<>>]

\* AddressBook.find
Find(d, name) == IF name \in Keys(d) THEN Lookup(d, name) ELSE NoRecord

\* AddressBook.delete
Delete(d, name) == IF name \in Keys(d) THEN DictDel(d, name) ELSE d

Min(a, b) == IF a < b THEN a ELSE b

\* the slice taken one element too long
SliceOneMore(list, counter, record_number) ==
    SubSeq(list, Min(counter, Len(list)) + 1, Min(counter + record_number + 1, Len(list)))

\* list[counter:counter + record_number] for counter >= 0 and record_number >= 0
Slice(list, counter, record_number) ==
    SubSeq(list, Min(counter, Len(list)) + 1, Min(counter + record_number, Len(list)))

\* address_book.csv: missing, or holding the header and these rows
Absent == [exists |-> FALSE, rows |-> <<>>]
FileOf(rows) == [exists |-> TRUE, rows |-> rows]

\* the writer leaving the birthday column empty
AddressBookWriterNoBirthday(d) ==
    [i \in 1..Len(d) |->
        [name |-> d[i].rec.name,
         phone |-> Join(d[i].rec.phones, <<";", " ">>),
         birthday |-> <<>>]]

\* AddressBook.address_book_writer: one row per record under the header
AddressBookWriter(d) ==
    [i \in 1..Len(d) |->
        [name |-> d[i].rec.name,
         phone |-> Join(d[i].rec.phones, <<";", " ">>),
         birthday |-> IF d[i].rec.birthday # None THEN d[i].rec.birthday ELSE <<>>]]

\* the body of the reader's for loop: one row becomes one Record with one phone
ReadRow(d, row) ==
    Try(NewRecord(row.name, row.birthday), d, LAMBDA record :
        Try(RecordAddPhone(record, row.phone), d, LAMBDA withPhone :
            AddRecord(d, withPhone)))

RECURSIVE ReadRows(_, _)
ReadRows(d, rows) ==
    IF Len(rows) = 0 THEN [data |-> d, res |-> Ok(None)]
    ELSE Try(ReadRow(d, Head(rows)).res, ReadRow(d, Head(rows)).data,
             LAMBDA none : ReadRows(ReadRow(d, Head(rows)).data, Tail(rows)))

\* AddressBook.address_book_reader
AddressBookReader(d, f) ==
    IF ~f.exists
    THEN [data |-> d, res |-> Raise("FileNotFoundError", "No such file or directory")]
    ELSE ReadRows(d, f.rows)

-----------------------------------------------------------------------------
(* The command handlers.  A response is the f-string's text and the values *)
(* formatted into it; search_handler returns a list of names.              *)

Resp(fmt, args) == [fmt |-> fmt, args |-> args]

MsgEnterName == Resp("Enter user name", <<>>)
MsgExists == Resp("The contact with this name already exists", <<>>)
MsgNotFound == Resp("Contact not found", <<>>)
MsgHello == Resp("How can I help you?", <<>>)
MsgGoodBye == Resp("Good bye!", <<>>)
MsgNoContacts == Resp("No contacts found", <<>>)
MsgAdded(name, phone) ==
    Resp("Contact {} with phone {} has been added to the contacts", <<name, phone>>)
MsgChanged(name, phone) == Resp("Phone has been changed for {} to {}", <<name, phone>>)
MsgPhone(name, phone) == Resp("The phone number for {} is {}", <<name, phone>>)
MsgAddUsage == Resp("Invalid command. Please follow the format: add name(at least 2 characters) phone(at least 10 digits)", <<>>)
MsgChangeUsage == Resp("Invalid command. Please follow the format: change name(at least 2 characters) phone(at least 10 digits)", <<>>)
MsgPhoneUsage == Resp("Invalid command. Please follow the format: phone name(at least 2 characters)", <<>>)
MsgSearchUsage == Resp("Invalid command. Please follow the format: search letter or digit", <<>>)

\* input_error without its ValueError clause
InputErrorMissesValueError(r) ==
    IF r.res.kind = "raise" /\ r.res.exc = "KeyError"
    THEN [data |-> r.data, res |-> Ok(MsgEnterName)]
    ELSE IF r.res.kind = "raise" /\ r.res.exc = "IndexError"
    THEN [data |-> r.data, res |-> Ok(MsgNotFound)]
    ELSE r

\* input_error: the three exceptions become messages, any other propagates
InputError(r) ==
    IF r.res.kind = "raise" /\ r.res.exc = "KeyError"
    THEN [data |-> r.data, res |-> Ok(MsgEnterName)]
    ELSE IF r.res.kind = "raise" /\ r.res.exc = "ValueError"
    THEN [data |-> r.data, res |-> Ok(MsgExists)]
    ELSE IF r.res.kind = "raise" /\ r.res.exc = "IndexError"
    THEN [data |-> r.data, res |-> Ok(MsgNotFound)]
    ELSE r

KwAdd == <<"a","d","d">>
KwChange == <<"c","h","a","n","g","e">>
KwPhone == <<"p","h","o","n","e">>
KwSearch == <<"s","e","a","r","c","h">>
KwHello == <<"h","e","l","l","o">>
KwShowAll == <<"s","h","o","w"," ","a","l","l">>
KwGoodBye == <<"g","o","o","d"," ","b","y","e">>
KwClose == <<"c","l","o","s","e">>
KwExit == <<"e","x","i","t">>
KwComma == <<",">>

PatternMinLetters == 2
PatternMinDigits == 10

\* [a-zA-Z...]{2,} on the characters the model's input is made of
MatchesLetters(w) == Len(w) >= PatternMinLetters /\ IsAlpha(w)
\* \d{10,}
MatchesDigits(w) == Len(w) >= PatternMinDigits /\ IsDigit(w)

\* re.fullmatch(r'^kw [a-zA-Z...]{2,} \d{10,}$', command)
FullMatchNamePhone(kw, cmd) ==
    LET parts == SplitOn(cmd, " ") IN
    /\ Len(parts) = 3
    /\ parts[1] = kw
    /\ MatchesLetters(parts[2])
    /\ MatchesDigits(parts[3])

\* re.fullmatch(r'^kw [a-zA-Z...]{2,}$', command)
FullMatchName(kw, cmd) ==
    LET parts == SplitOn(cmd, " ") IN
    /\ Len(parts) = 2
    /\ parts[1] = kw
    /\ MatchesLetters(parts[2])

\* phone in [record.phones for record in ...]: the str is compared with each
\* record's list of Phone objects, and a str never equals a list
PhoneInPhoneLists(phone, d) == \E i \in 1..Len(d) : FALSE

\* the result of the call once add_record has returned or raised
Returning(r, msg) ==
    IF r.res.kind = "raise" THEN r ELSE [data |-> r.data, res |-> Ok(msg)]

\* add_handler storing the new record over one already stored under the name
AddParsedOverwrites(d, name, phone) ==
    Try(NewRecord(name, None), d, LAMBDA record :
        Try(RecordAddPhone(record, phone), d, LAMBDA withPhone :
            [data |-> DictSet(d, name, withPhone), res |-> Ok(MsgAdded(name, phone))]))

\* add_handler, lines 191-201, for the name and phone split off the command
AddParsed(d, name, phone) ==
    IF name \notin Keys(d) /\ ~PhoneInPhoneLists(phone, d)
    THEN Try(NewRecord(name, None), d, LAMBDA record :
             Try(RecordAddPhone(record, phone), d, LAMBDA withPhone :
                 Returning(AddRecord(d, withPhone), MsgAdded(name, phone))))
    ELSE [data |-> d, res |-> Ok(MsgAdded(name, phone))]

AddHandlerBody(d, cmd) ==
    IF FullMatchNamePhone(KwAdd, cmd)
    THEN AddParsed(d, Split(cmd)[2], Split(cmd)[3])
    ELSE [data |-> d, res |-> Ok(MsgAddUsage)]

\* add_handler
AddHandler(d, cmd) == InputError(AddHandlerBody(d, cmd))

\* change_handler, lines 214-219, for the record that find returned; the
\* record is edited in place, so the dict keeps its order
ChangeParsed(d, name, new_phone, record) ==
    IF record # NoRecord
    THEN IF Len(record.phones) = 0     \* record.phones[0]
         THEN [data |-> d, res |-> Raise("IndexError", "list index out of range")]
         ELSE Try(RecordEditPhone(record, record.phones[1], new_phone), d,
                  LAMBDA edited : [data |-> DictSet(d, name, edited),
                                   res |-> Ok(MsgChanged(name, new_phone))])
    ELSE [data |-> d, res |-> Raise("IndexError", "")]

ChangeHandlerBody(d, cmd) ==
    IF FullMatchNamePhone(KwChange, cmd)
    THEN ChangeParsed(d, Split(cmd)[2], Split(cmd)[3], Find(d, Split(cmd)[2]))
    ELSE [data |-> d, res |-> Ok(MsgChangeUsage)]

\* change_handler
ChangeHandler(d, cmd) == InputError(ChangeHandlerBody(d, cmd))

\* phone_handler, lines 231-235, for the record that find returned
PhoneParsed(d, name, record) ==
    IF record # NoRecord
    THEN IF Len(record.phones) = 0     \* record.phones[0]
         THEN [data |-> d, res |-> Raise("IndexError", "list index out of range")]
         ELSE [data |-> d, res |-> Ok(MsgPhone(name, record.phones[1]))]
    ELSE [data |-> d, res |-> Raise("IndexError", "")]

PhoneHandlerBody(d, cmd) ==
    IF FullMatchName(KwPhone, cmd)
    THEN PhoneParsed(d, Split(cmd)[2], Find(d, Split(cmd)[2]))
    ELSE [data |-> d, res |-> Ok(MsgPhoneUsage)]

\* phone_handler
PhoneHandler(d, cmd) == InputError(PhoneHandlerBody(d, cmd))

RECURSIVE ShowAllArgs(_)
ShowAllArgs(recs) ==
    IF Len(recs) = 0 THEN <<>>
    ELSE <<Head(recs).name, Join(Head(recs).phones, <<";", " ">>)>>
         \o ShowAllArgs(Tail(recs))

\* show_all_handler: one line per record, concatenated
ShowAllHandler(d) ==
    InputError(
        IF Len(d) = 0
        THEN [data |-> d, res |-> Ok(MsgNoContacts)]
        ELSE [data |-> d,
              res |-> Ok(Resp("Contact name: {}, phones: {}\\n", ShowAllArgs(Values(d))))])

\* the names search_handler appends for one record
SearchRecord(rec, search_data) ==
    IF IsAlpha(search_data)
    THEN IF Contains(StrLower(rec.name), StrLower(search_data))   \* re.IGNORECASE
         THEN <<rec.name>> ELSE <<>>
    ELSE IF IsDigit(search_data)
    THEN [i \in 1..Cardinality({j \in 1..Len(rec.phones) :
                                   Contains(rec.phones[j], search_data)})
             |-> rec.name]
    ELSE <<>>

RECURSIVE SearchAll(_, _)
SearchAll(recs, search_data) ==
    IF Len(recs) = 0 THEN <<>>
    ELSE SearchRecord(Head(recs), search_data) \o SearchAll(Tail(recs), search_data)

\* search_handler: returns the list user_list
SearchSplit(d, sp) ==
    IF Len(sp) # 2 \/ ~IsAlnum(sp[2])
    THEN [data |-> d, res |-> Ok(MsgSearchUsage)]
    ELSE [data |-> d, res |-> Ok(Resp("list", SearchAll(Values(d), sp[2])))]

SearchHandler(d, cmd) == InputError(SearchSplit(d, Split(cmd)))

\* hello_handler
HelloHandler(d) == InputError([data |-> d, res |-> Ok(MsgHello)])

\* exit_handler
ExitHandler(d) == InputError([data |-> d, res |-> Ok(MsgGoodBye)])

-----------------------------------------------------------------------------
(* The values the model's inputs are drawn from.                           *)

NameAl == <<"a","l">>
NameBob == <<"b","o","b">>
Names == {NameAl, NameBob}

PhoneA == <<"1","2","3","4","5","6","7","8","9","0">>
PhoneB == <<"9","8","7","6","5","4","3","2","1","0","0">>
Phones == {PhoneA, PhoneB}
ShortPhone == <<"1","2","3">>

DateA == <<"1","9","9","0","-","0","5","-","1","7">>
BadDate == <<"2","0","2","0","-","1","3","-","0","1">>

Words(ws) == Join(ws, <<" ">>)

-----------------------------------------------------------------------------
(* main: the load at startup and the command loop.                         *)

\* handlers_with_command and handlers_without_command, in declared order
HandlersWithCommand == <<KwAdd, KwChange, KwPhone, KwSearch>>
HandlersWithoutCommand == <<KwHello, KwShowAll, KwGoodBye, KwClose, KwExit>>

CallWithCommand(prefix, d, cmd) ==
    IF prefix = KwAdd THEN AddHandler(d, cmd)
    ELSE IF prefix = KwChange THEN ChangeHandler(d, cmd)
    ELSE IF prefix = KwPhone THEN PhoneHandler(d, cmd)
    ELSE SearchHandler(d, cmd)

CallWithoutCommand(prefix, d) ==
    IF prefix = KwHello THEN HelloHandler(d)
    ELSE IF prefix = KwShowAll THEN ShowAllHandler(d)
    ELSE ExitHandler(d)

FirstPrefix(table, cmd) ==
    table[CHOOSE i \in 1..Len(table) :
              /\ StartsWith(cmd, table[i])
              /\ \A j \in 1..(i - 1) : ~StartsWith(cmd, table[j])]

\* print(handler(...)): the handler's result joins what the iteration printed
Printing(r, before) == [data |-> r.data, results |-> Append(before, r.res)]

\* the two for loops of one iteration: the first matching prefix of each
\* table is dispatched and its result printed
AnyPrefix(table, cmd) == \E i \in 1..Len(table) : StartsWith(cmd, table[i])

\* the first for loop: [data, results], results holding what was printed
DispatchWith(d, cmd) ==
    IF AnyPrefix(HandlersWithCommand, cmd)
    THEN Printing(CallWithCommand(FirstPrefix(HandlersWithCommand, cmd), d, cmd), <<>>)
    ELSE [data |-> d, results |-> <<>>]

\* the second for loop, after the first
DispatchWithout(first, cmd) ==
    IF AnyPrefix(HandlersWithoutCommand, cmd)
    THEN Printing(CallWithoutCommand(FirstPrefix(HandlersWithoutCommand, cmd), first.data),
                  first.results)
    ELSE first

Dispatch(d, cmd) == DispatchWithout(DispatchWith(d, cmd), cmd)

\* command in [',', 'good bye', 'close', 'exit']
IsExitCommand(cmd) == cmd \in {KwComma, KwGoodBye, KwClose, KwExit}

\* main after address_book_reader has returned or raised: main is wrapped by
\* input_error, which turns the reader's ValueError into main's return value
MainLoaded(loaded) ==
    /\ data' = loaded.data
    /\ ret' = InputError(loaded).res
    /\ pc' = IF loaded.res.kind = "ok" THEN "running"
             ELSE IF InputError(loaded).res.kind = "raise" THEN "crashed"
             ELSE "load_failed"

\* main, line 281: the book is loaded
MainReader ==
    /\ pc = "start"
    /\ MainLoaded(AddressBookReader(data, file))
    /\ op' = <<"address_book_reader">>
    /\ UNCHANGED <<file, other, command, printed, wrote,
                   itPage, itCounter, itSlice, itYielded>>

\* one iteration after the two for loops: the exit test, the write and the
\* break.  Every handler is wrapped by input_error and raises nothing else, so
\* each result is a value that was printed
MainDispatched(cmd, r) ==
    /\ command' = cmd
    /\ data' = r.data
    /\ printed' = [i \in 1..Len(r.results) |-> r.results[i].val]
    /\ IF IsExitCommand(cmd)
       THEN /\ file' = FileOf(AddressBookWriter(r.data))
            /\ wrote' = TRUE
            /\ pc' = "stopped"
       ELSE /\ file' = file
            /\ wrote' = FALSE
            /\ pc' = "running"

\* main, lines 297-314: one iteration of the loop on the input line
MainLoop(line) ==
    /\ pc = "running"
    /\ MainDispatched(StrLower(line), Dispatch(data, StrLower(line)))
    /\ op' = <<"input", line>>
    /\ UNCHANGED <<ret, other, itPage, itCounter, itSlice, itYielded>>

\* what address_book.csv may hold when the program starts
InitFiles ==
    { Absent,
      FileOf(<<>>),
      FileOf(<<[name |-> NameBob, phone |-> PhoneA, birthday |-> DateA]>>),
      FileOf(<<[name |-> NameAl, phone |-> PhoneB, birthday |-> <<>>],
               [name |-> NameBob, phone |-> PhoneA, birthday |-> <<>>]>>),
      FileOf(<<[name |-> NameBob, phone |-> ShortPhone, birthday |-> <<>>]>>),
      FileOf(<<[name |-> NameAl, phone |-> PhoneA, birthday |-> <<>>],
               [name |-> NameBob, phone |-> Join(<<PhoneA, PhoneB>>, <<";", " ">>),
                birthday |-> <<>>]>>),
      FileOf(<<[name |-> NameBob, phone |-> PhoneA, birthday |-> BadDate]>>),
      FileOf(<<[name |-> NameBob, phone |-> PhoneA, birthday |-> <<>>],
               [name |-> NameBob, phone |-> PhoneB, birthday |-> <<>>]>>) }

\* the lines the user may type
Lines ==
    {Words(<<KwAdd, n, p>>) : n \in Names, p \in Phones}
    \cup {Words(<<KwChange, n, p>>) : n \in Names, p \in Phones}
    \cup {Words(<<KwPhone, n>>) : n \in Names}
    \cup { KwHello, KwShowAll, KwGoodBye, KwClose, KwExit, KwComma,
           <<>>,
           <<"E","X","I","T">>,
           <<"G","o","o","d"," ","B","y","e">>,
           <<"e","x","i","t"," ","n","o","w">>,
           <<"c","l","o","s","e","t">>,
           <<" ","e","x","i","t">>,
           <<"A","d","d"," ","B","o","b"," ">> \o PhoneA,
           Words(<<KwAdd, NameAl, ShortPhone>>),
           Words(<<KwChange, NameAl>>),
           KwPhone,
           Words(<<KwSearch, <<"B","O">>>>),
           Words(<<KwSearch, <<"9","0">>>>),
           KwSearch }

Init ==
    /\ data = <<>>
    /\ file \in InitFiles
    /\ pc = "start"
    /\ op = <<"none">>
    /\ ret = Ok(None)
    /\ other = <<>>
    /\ command = <<>>
    /\ printed = <<>>
    /\ wrote = FALSE
    /\ itPage = 0
    /\ itCounter = 0
    /\ itSlice = <<>>
    /\ itYielded = <<>>

Next ==
    \/ MainReader
    \/ \E line \in Lines : MainLoop(line)

Spec == Init /\ [][Next]_vars

-----------------------------------------------------------------------------
(* The classes used as a library: calls on one AddressBook and on the      *)
(* Records it holds, then a save and a load into a second, empty book.     *)

mainVars == <<command, printed, wrote>>
iterVars == <<itPage, itCounter, itSlice, itYielded>>

\* Record(name, birthday) as a caller may construct it
FreshRecords ==
    {NewRecord(n, b).val : n \in Names, b \in {None, DateA}}

\* the command lines handed to the handlers
AddCommands ==
    {Words(<<KwAdd, n, p>>) : n \in Names, p \in Phones}
    \cup {Words(<<KwAdd, NameAl, ShortPhone>>)}
ChangeCommands ==
    {Words(<<KwChange, n, p>>) : n \in Names, p \in Phones}
    \cup {Words(<<KwChange, NameAl>>)}
PhoneCommands ==
    {Words(<<KwPhone, n>>) : n \in Names} \cup {KwPhone}

\* datetime.now(): [year, month, day]
Nows == {[year |-> 2026, month |-> 1, day |-> 1],
         [year |-> 2026, month |-> 12, day |-> 31]}

\* a call that returns [data, res]
ApiCall(call, r) ==
    /\ pc = "api"
    /\ op' = call
    /\ data' = r.data
    /\ ret' = r.res
    /\ UNCHANGED <<pc, file, other, mainVars, iterVars>>

\* address_book.add_record(record)
ApiAddRecord(record) ==
    ApiCall(<<"add_record", record>>, AddRecord(data, record))

\* address_book.delete(name)
ApiDelete(name) ==
    ApiCall(<<"delete", name>>, [data |-> Delete(data, name), res |-> Ok(None)])

\* a method of the Record stored under name, which changes that Record in place
OnRecord(name, r) ==
    IF r.kind = "raise" THEN [data |-> data, res |-> r]
    ELSE [data |-> DictSet(data, name, r.val), res |-> Ok(None)]

\* address_book.find(name).add_phone(phone)
ApiAddPhone(name, phone) ==
    /\ name \in Keys(data)
    /\ Len(Lookup(data, name).phones) < MaxPhones
    /\ ApiCall(<<"add_phone", name, phone>>,
               OnRecord(name, RecordAddPhone(Lookup(data, name), phone)))

\* address_book.find(name).remove_phone(phone)
ApiRemovePhone(name, phone) ==
    /\ name \in Keys(data)
    /\ ApiCall(<<"remove_phone", name, phone>>,
               OnRecord(name, RecordRemovePhone(Lookup(data, name), phone)))

\* address_book.find(name).days_to_birthday()
ApiDaysToBirthday(name, now) ==
    /\ name \in Keys(data)
    /\ ApiCall(<<"days_to_birthday", name>>,
               [data |-> data, res |-> DaysToBirthday(Lookup(data, name), now)])

ApiAddHandler(cmd) == ApiCall(<<"add_handler", cmd>>, AddHandler(data, cmd))
ApiChangeHandler(cmd) == ApiCall(<<"change_handler", cmd>>, ChangeHandler(data, cmd))
ApiPhoneHandler(cmd) == ApiCall(<<"phone_handler", cmd>>, PhoneHandler(data, cmd))

\* address_book.address_book_writer()
ApiWriter ==
    /\ pc = "api"
    /\ pc' = "written"
    /\ op' = <<"address_book_writer">>
    /\ file' = FileOf(AddressBookWriter(data))
    /\ ret' = Ok(None)
    /\ UNCHANGED <<data, other, mainVars, iterVars>>

\* what the reader leaves in the second book and returns or raises
ApiRead(r) ==
    /\ other' = r.data
    /\ ret' = r.res

\* AddressBook().address_book_reader() on the file just written
ApiReader ==
    /\ pc = "written"
    /\ pc' = "read"
    /\ op' = <<"address_book_reader">>
    /\ ApiRead(AddressBookReader(<<>>, file))
    /\ UNCHANGED <<data, file, mainVars, iterVars>>

InitApi ==
    /\ data = <<>>
    /\ file = Absent
    /\ pc = "api"
    /\ op = <<"none">>
    /\ ret = Ok(None)
    /\ other = <<>>
    /\ command = <<>>
    /\ printed = <<>>
    /\ wrote = FALSE
    /\ itPage = 0
    /\ itCounter = 0
    /\ itSlice = <<>>
    /\ itYielded = <<>>

NextApi ==
    \/ \E record \in FreshRecords : ApiAddRecord(record)
    \/ \E name \in Names : ApiDelete(name)
    \/ \E name \in Names, phone \in Phones \cup {ShortPhone} : ApiAddPhone(name, phone)
    \/ \E name \in Names, phone \in Phones : ApiRemovePhone(name, phone)
    \/ \E name \in Names, now \in Nows : ApiDaysToBirthday(name, now)
    \/ \E cmd \in AddCommands : ApiAddHandler(cmd)
    \/ \E cmd \in ChangeCommands : ApiChangeHandler(cmd)
    \/ \E cmd \in PhoneCommands : ApiPhoneHandler(cmd)
    \/ ApiWriter
    \/ ApiReader

SpecApi == InitApi /\ [][NextApi]_vars

-----------------------------------------------------------------------------
(* AddressBook.iterator(record_number), consumed by a for loop: the        *)
(* generator runs from one yield to the next.                              *)

NameEve == <<"e","v","e">>
NameDan == <<"d","a","n">>
IterNames == <<NameAl, NameBob, NameEve, NameDan>>

\* the book add_handler builds from these names, in this order
RECURSIVE BookOf(_)
BookOf(names) ==
    IF Len(names) = 0 THEN <<>>
    ELSE AddParsed(BookOf(SubSeq(names, 1, Len(names) - 1)),
                   names[Len(names)], PhoneA).data

IterBooks ==
    UNION {{BookOf(f) : f \in {g \in [1..k -> Range(IterNames)] :
                                 \A i, j \in 1..k : i # j => g[i] # g[j]}}
           : k \in 0..MaxIterRecords}

\* lines 136-140: the while test, then the slice and the yield, or the end
IterTest ==
    /\ pc = "test"
    /\ IF itCounter < Len(data)
       THEN /\ itSlice' = Slice(Values(data), itCounter, itPage)
            /\ itYielded' = itYielded \o Slice(Values(data), itCounter, itPage)
            /\ pc' = "yielded"
       ELSE /\ pc' = "finished"
            /\ UNCHANGED <<itSlice, itYielded>>
    /\ UNCHANGED <<data, file, op, ret, other, mainVars, itPage, itCounter>>

\* line 141, when the consumer asks for the next slice
IterResume ==
    /\ pc = "yielded"
    /\ itCounter' = itCounter + itPage
    /\ pc' = "test"
    /\ UNCHANGED <<data, file, op, ret, other, mainVars, itPage, itSlice, itYielded>>

InitIter ==
    /\ data \in IterBooks
    /\ itPage \in 0..MaxPageSize
    /\ itCounter = 0          \* line 135
    /\ itSlice = <<>>
    /\ itYielded = <<>>
    /\ pc = "test"
    /\ file = Absent
    /\ op = <<"iterator">>
    /\ ret = Ok(None)
    /\ other = <<>>
    /\ command = <<>>
    /\ printed = <<>>
    /\ wrote = FALSE

NextIter == IterTest \/ IterResume

\* the for loop keeps asking for the next slice until the generator ends
SpecIter == InitIter /\ [][NextIter]_vars /\ WF_vars(IterTest) /\ WF_vars(IterResume)

-----------------------------------------------------------------------------
(* Properties of main, checked under Spec.                                 *)

\* the file held no rows at startup, so every record of the running session
\* was stored by an add command
StartedEmpty == file.exists /\ Len(file.rows) = 0

\* C1: once an add command has stored name n, a later add command for n (with
\* any phone) prints the duplicate-contact message, not the confirmation.
C1_SecondAddIsRejected ==
    [][\A n \in Names, q \in Phones :
          (/\ pc = "running"
           /\ StartedEmpty
           /\ n \in Keys(data)
           /\ command' = Words(<<KwAdd, n, q>>))
          => printed' = <<MsgExists>>]_vars

Farewells == {KwGoodBye, KwClose, KwExit}

\* C3: the loop stops exactly on the lines whose lowercased form is 'good bye',
\* 'close' or 'exit', writing the book to the file on that step; every other
\* line leaves it running and the file unwritten.
C3_StopsExactlyOnFarewell ==
    [][pc = "running" =>
          IF command' \in Farewells
          THEN pc' = "stopped" /\ wrote' /\ file' = FileOf(AddressBookWriter(data'))
          ELSE pc' = "running" /\ ~wrote' /\ file' = file]_vars

\* the first phone stored for name n is p
FirstPhoneIs(d, n, p) ==
    /\ n \in Keys(d)
    /\ Len(Lookup(d, n).phones) >= 1
    /\ Lookup(d, n).phones[1] = p

\* the line is a change command for name n
IsChangeOf(cmd, n) == FullMatchNamePhone(KwChange, cmd) /\ Split(cmd)[2] = n

\* C4: the add command for a name n not in the book and a phone p makes p the
\* phone of n; every command other than a change command for n keeps it; and
\* the phone command for n prints the response carrying it.
C4_AddThenPhone ==
    [][pc = "running" =>
          \A n \in Names, p \in Phones :
              /\ (n \notin Keys(data) /\ command' = Words(<<KwAdd, n, p>>))
                     => FirstPhoneIs(data', n, p)
              /\ (FirstPhoneIs(data, n, p) /\ ~IsChangeOf(command', n))
                     => FirstPhoneIs(data', n, p)
              /\ (FirstPhoneIs(data, n, p) /\ command' = Words(<<KwPhone, n>>))
                     => printed' = <<MsgPhone(n, p)>>]_vars

\* bob was added with PhoneA, al was added and changed, and phone bob answers PhoneA
C4_Witness ==
    /\ pc = "running"
    /\ StartedEmpty
    /\ command = Words(<<KwPhone, NameBob>>)
    /\ printed = <<MsgPhone(NameBob, PhoneA)>>
    /\ FirstPhoneIs(data, NameAl, PhoneB)
    /\ data[1].key = NameBob

\* C9: the farewell is printed on exactly the lines that end the session.
C9_FarewellIffSessionEnds ==
    [][pc = "running" =>
          ((\E i \in 1..Len(printed') : printed'[i] = MsgGoodBye) <=> pc' = "stopped")]_vars

\* row i of the file cannot be loaded: its phone field is not 10 or more
\* digits, its birthday does not parse, or its name was loaded from an earlier row
RowIsMalformed(rows, i) ==
    \/ ~(IsDigit(rows[i].phone) /\ Len(rows[i].phone) >= 10)
    \/ (rows[i].birthday # <<>> /\ ~StrptimeOk(rows[i].birthday))
    \/ \E j \in 1..(i - 1) : rows[j].name = rows[i].name

HoldsMalformedRow(f) == f.exists /\ \E i \in 1..Len(f.rows) : RowIsMalformed(f.rows, i)

FirstMalformed(rows) ==
    CHOOSE i \in 1..Len(rows) :
        RowIsMalformed(rows, i) /\ \A j \in 1..(i - 1) : ~RowIsMalformed(rows, j)

\* C10 as stated: a malformed row in the file loaded at startup makes the
\* error leave main unhandled.
C10_LoadErrorCrashes ==
    (pc # "start" /\ HoldsMalformedRow(file)) => (pc = "crashed" /\ ret.kind = "raise")

\* C10 as amended: the error of a malformed row is caught by the input_error
\* around main, which returns the message 'The contact with this name already
\* exists'; the loop is never entered, nothing is printed or written, and the
\* book holds the rows before the malformed one.
C10_LoadErrorReturned ==
    (pc # "start" /\ HoldsMalformedRow(file)) =>
        /\ pc = "load_failed"
        /\ ret = Ok(MsgExists)
        /\ printed = <<>>
        /\ ~wrote
        /\ [i \in 1..Len(data) |-> data[i].key]
               = [i \in 1..(FirstMalformed(file.rows) - 1) |-> file.rows[i].name]

\* the second row is malformed and the first was loaded before main returned
C10_Witness ==
    /\ pc = "load_failed"
    /\ HoldsMalformedRow(file)
    /\ Len(data) = 1
    /\ ret = Ok(MsgExists)

-----------------------------------------------------------------------------
(* Properties of the classes, checked under SpecApi.                       *)

LeadingSinglePhone(d) ==
    CHOOSE k \in 0..Len(d) :
        /\ \A i \in 1..k : Len(d[i].rec.phones) = 1
        /\ k < Len(d) => Len(d[k + 1].rec.phones) # 1

OthersUnchanged(d, e, n) ==
    /\ Len(e) = Len(d)
    /\ \A i \in 1..Len(d) : e[i].key = d[i].key /\ (d[i].key # n => e[i] = d[i])

\* the record under n has q as its first phone and is otherwise as before
FirstPhoneReplaced(d, e, n, q) ==
    /\ Len(Lookup(d, n).phones) >= 1
    /\ Lookup(e, n) = [Lookup(d, n) EXCEPT !.phones[1] = q]

\* C5 as stated: change for a name in the book replaces the first phone of
\* its record and nothing else; for a name not in the book it returns
\* 'Contact not found' and changes nothing.
C5_ChangeReplacesFirstPhone ==
    [][\A n \in Names, q \in Phones :
          (/\ pc = "api"
           /\ op'[1] = "change_handler"
           /\ op'[2] = Words(<<KwChange, n, q>>))
          => IF n \in Keys(data)
             THEN OthersUnchanged(data, data', n) /\ FirstPhoneReplaced(data, data', n, q)
             ELSE ret' = Ok(MsgNotFound) /\ data' = data]_vars

\* C5 as amended: a record in the book that holds no phone is treated like a
\* missing name.
C5_ChangeReplacesFirstPhoneIfAny ==
    [][\A n \in Names, q \in Phones :
          (/\ pc = "api"
           /\ op'[1] = "change_handler"
           /\ op'[2] = Words(<<KwChange, n, q>>))
          => IF n \in Keys(data) /\ Len(Lookup(data, n).phones) >= 1
             THEN /\ OthersUnchanged(data, data', n)
                  /\ FirstPhoneReplaced(data, data', n, q)
                  /\ ret' = Ok(MsgChanged(n, q))
             ELSE ret' = Ok(MsgNotFound) /\ data' = data]_vars

\* bob held PhoneA twice and al is in the book; change bob replaced the first
C5_Witness ==
    /\ pc = "api"
    /\ op[1] = "change_handler"
    /\ ret = Ok(MsgChanged(NameBob, PhoneB))
    /\ Len(data) = 2
    /\ Lookup(data, NameBob).phones = <<PhoneB, PhoneA>>

\* a record without phones is in the book and change answered not found
C5_WitnessNoPhone ==
    /\ pc = "api"
    /\ op[1] = "change_handler"
    /\ op[2] = Words(<<KwChange, NameBob, PhoneB>>)
    /\ NameBob \in Keys(data)
    /\ ret = Ok(MsgNotFound)

\* every key maps to the record of that name, and no name has two records
BookInvariant ==
    /\ \A i \in 1..Len(data) : data[i].key = data[i].rec.name
    /\ \A i, j \in 1..Len(data) : i # j => data[i].key # data[j].key

\* C6: the book holds one record per name, each under its own name, and
\* add_record of a name already present raises the 'already exists' error and
\* changes nothing.
C6_OneRecordPerName ==
    /\ []BookInvariant
    /\ [][(/\ pc = "api"
           /\ op'[1] = "add_record"
           /\ op'[2].name \in Keys(data))
          => /\ ret' = Raise("ValueError", "The contact with this name already exists")
             /\ data' = data]_vars

\* add_record was refused for a book of two records, one of them with phones
C6_Witness ==
    /\ pc = "api"
    /\ op[1] = "add_record"
    /\ ret.kind = "raise"
    /\ Len(data) = 2
    /\ Lookup(data, op[2].name) # op[2]

\* C8: days_to_birthday of a record with a birthday returns a number of days
\* that is never negative, and None only when no birthday is set.
C8_DaysNeverNegative ==
    (pc = "api" /\ op[1] = "days_to_birthday") =>
        IF Lookup(data, op[2]).birthday # None
        THEN ret.kind = "ok" /\ ret.val \in 0..366
        ELSE ret = Ok(None)

-----------------------------------------------------------------------------
(* Properties of the iterator, checked under SpecIter.                     *)

\* no slice is longer than the page, and the slices yielded so far are the
\* first records of the book, all of them once the iterator has ended
IterSafe ==
    /\ Len(itSlice) <= itPage
    /\ Len(itYielded) <= Len(data)
    /\ itYielded = SubSeq(Values(data), 1, Len(itYielded))
    /\ pc = "finished" => itYielded = Values(data)

\* C7 as stated: for every page size the iterator ends after finitely many
\* slices of at most page_size records, which together are the book's records.
C7_IteratorEnds ==
    /\ []IterSafe
    /\ <>(pc = "finished")

\* C7 as amended: the same for every page size of at least 1.
C7_IteratorEndsForPositivePage ==
    /\ [](itPage >= 1 => IterSafe)
    /\ (itPage >= 1) ~> (pc = "finished")

\* three records in pages of two: the iterator ended after a slice of one
C7_Witness ==
    /\ pc = "finished"
    /\ itPage = 2
    /\ Len(data) = 3
    /\ Len(itSlice) = 1
    /\ itYielded = Values(data)

====
